---- MODULE Spec2Model ----
(***************************************************************************)
(* Model of tomz3302/collaborative-rag-platform (backend):                 *)
(*   - the branching conversation store (DBManager over PostgreSQL),       *)
(*   - ChatController.process_user_query,                                  *)
(*   - the hybrid retrieval pipeline AdvancedRAGSystem.query.              *)
(*                                                                         *)
(* Python strings that the code builds and parses (the materialized path)  *)
(* are sequences of one-character strings, so that formatting an id and    *)
(* parsing it back are two different computations.                         *)
(***************************************************************************)
EXTENDS Integers, Sequences, FiniteSets, TLC

VARIABLES
    threads,          \* ids of the committed rows of table threads
    messages,         \* committed rows of table messages: id -> row
    messages_id_seq,  \* next value of the SERIAL sequence of messages.id
    appended,         \* history: id -> arguments of the add_message call that stored it
    frame,            \* per connection: the running add_message call
    context,          \* argument and result of the last get_context_messages call
    started,          \* number of add_message calls begun so far
    fetched,          \* the last call of a reader of table messages and what it returned
    request,          \* per worker: the running process_user_query call
    asked,            \* number of process_user_query calls begun so far
    run,              \* the running AdvancedRAGSystem.query call
    enrich,           \* the running enrichment of the chunks of one document
    index_lock,       \* AdvancedRAGSystem.index_lock: the worker that holds it, or None
    build,            \* per worker: the running upload_file / build_index call
    vectorstore       \* number of documents added to the vector store

store_vars == <<threads, messages, messages_id_seq, appended, frame, context, started, fetched>>

chat_vars == <<request, asked>>

ingest_vars == <<enrich, index_lock, build, vectorstore>>

-----------------------------------------------------------------------------
(* Bounds *)

NumProcs == 2        \* concurrent connections
MaxCalls == 2        \* add_message calls per behaviour
MaxRequests == 2     \* process_user_query calls per behaviour
ChainLen == 5        \* length of the conversation already stored in one initial state
FirstChainId == 7    \* first id of that conversation (earlier sequence values were burnt)
MaxHits == 3         \* hits one sub-index returns to a search
MaxChunks == 2       \* raw chunks of one document
MaxBuilds == 3       \* upload_file and build_index calls per behaviour
MaxAppends == 3      \* add_message calls between the reads of one behaviour

Procs == 1..NumProcs

-----------------------------------------------------------------------------
(* Python values *)

\* None, and NULL in an integer column
None == -1

\* Python truthiness of an Optional[int]: None and 0 are falsy
Truthy(x) == x # None /\ x # 0

Digits == <<"0", "1", "2", "3", "4", "5", "6", "7", "8", "9">>

DigitChars == {Digits[i] : i \in 1..10}

\* str(n) for a non-negative int
RECURSIVE str(_)
str(n) == IF n < 10 THEN <<Digits[n + 1]>>
          ELSE str(n \div 10) \o <<Digits[(n % 10) + 1]>>

\* s.strip('/')
RECURSIVE lstrip(_)
lstrip(s) == IF s # <<>> /\ Head(s) = "/" THEN lstrip(Tail(s)) ELSE s

RECURSIVE rstrip(_)
rstrip(s) == IF s # <<>> /\ s[Len(s)] = "/" THEN rstrip(SubSeq(s, 1, Len(s) - 1)) ELSE s

strip(s) == rstrip(lstrip(s))

\* s.split('/'): the pieces between separators, empty pieces included
RECURSIVE split(_)
split(s) ==
    IF \A i \in 1..Len(s) : s[i] # "/" THEN <<s>>
    ELSE LET k == CHOOSE i \in 1..Len(s) : s[i] = "/" /\ \A j \in 1..(i - 1) : s[j] # "/"
         IN  <<SubSeq(s, 1, k - 1)>> \o split(SubSeq(s, k + 1, Len(s)))

\* isdigit as a test of a single character
isdigit_one_char(x) == Len(x) = 1 /\ x[1] \in DigitChars

\* x.isdigit()
isdigit(x) == x # <<>> /\ \A i \in 1..Len(x) : x[i] \in DigitChars

DigitValue(c) == (CHOOSE i \in 1..10 : Digits[i] = c) - 1

\* int(x) for a string of digits
RECURSIVE int(_)
int(x) == IF x = <<>> THEN 0
          ELSE 10 * int(SubSeq(x, 1, Len(x) - 1)) + DigitValue(x[Len(x)])

\* [int(x) for x in path_string.strip('/').split('/') if x.isdigit()]
RECURSIVE DigitTokens(_)
DigitTokens(toks) ==
    IF toks = <<>> THEN <<>>
    ELSE (IF isdigit(Head(toks)) THEN <<int(Head(toks))>> ELSE <<>>) \o DigitTokens(Tail(toks))

ancestor_ids(path_string) == DigitTokens(split(strip(path_string)))

-----------------------------------------------------------------------------
(* Table messages *)

Roles == {"user", "assistant"}
Texts == {"hi", "why"}
ThreadIds == {1, 2}

NoRows == [i \in {} |-> 0]

\* a table with one more row
WithRow(rows, id, row) == [i \in (DOMAIN rows) \cup {id} |-> IF i = id THEN row ELSE rows[i]]

\* SELECT ... FROM messages WHERE id IN ids ORDER BY id ASC, as the list of ids
RECURSIVE OrderById(_)
OrderById(ids) ==
    IF ids = {} THEN <<>>
    ELSE LET lo == CHOOSE i \in ids : \A j \in ids : i <= j
         IN  <<lo>> \o OrderById(ids \ {lo})

\* the columns role, content of a row
RoleContent(row) == [role |-> row.role, content |-> row.content]

-----------------------------------------------------------------------------
(* DBManager.add_message: one transaction on a pooled connection.          *)
(* psycopg2 opens the transaction at the first statement and nothing is    *)
(* visible to other connections before conn.commit().                      *)

IdleFrame ==
    [pc |-> "idle", thread_id |-> None, user_id |-> None, role |-> "user", content |-> "hi",
     parent_message_id |-> None, is_fork_start |-> FALSE,
     parent_path |-> <<>>, inherited_branch_id |-> None, parent_found |-> FALSE,
     initial_branch_val |-> None, new_msg_id |-> None,
     path |-> <<>>, branch_id |-> None]

\* the call with its arguments bound, before its first statement
CallFrame(thread_id, user_id, role, content, parent_message_id, is_fork_start) ==
    [IdleFrame EXCEPT !.pc = "select", !.thread_id = thread_id, !.user_id = user_id,
                      !.role = role, !.content = content,
                      !.parent_message_id = parent_message_id,
                      !.is_fork_start = is_fork_start]

\* 1. Determine Parent Info: SELECT path, branch_id FROM messages WHERE id = parent
select_parent(rows, f) ==
    IF Truthy(f.parent_message_id) /\ f.parent_message_id \in DOMAIN rows
    THEN [f EXCEPT !.pc = "insert",
                   !.parent_path = rows[f.parent_message_id].path,
                   !.inherited_branch_id = rows[f.parent_message_id].branch_id,
                   !.parent_found = TRUE]
    ELSE [f EXCEPT !.pc = "insert"]

\* the foreign keys of table messages, checked at the end of the INSERT statement:
\* the referenced rows are committed rows or the row the statement itself inserted
ForeignKeysHold(thr, rows, f, id) ==
    /\ f.thread_id \in thr
    /\ \/ f.parent_message_id = None
       \/ f.parent_message_id \in DOMAIN rows
       \/ f.parent_message_id = id

\* 2. INSERT ... VALUES (..., '', parent, initial_branch_val) RETURNING id
insert_message(thr, rows, seq, f) ==
    LET initial_branch_val == IF f.is_fork_start THEN None ELSE f.inherited_branch_id
    IN  IF ForeignKeysHold(thr, rows, f, seq)
        THEN [f EXCEPT !.pc = "update", !.initial_branch_val = initial_branch_val,
                       !.new_msg_id = seq, !.path = <<>>, !.branch_id = initial_branch_val]
        ELSE [f EXCEPT !.pc = "raised", !.initial_branch_val = initial_branch_val]

\* the path built from the parent's id instead of the parent's path
new_path_from_parent_id(f) ==
    IF Truthy(f.parent_message_id)
    THEN str(f.parent_message_id) \o <<"/">> \o str(f.new_msg_id) \o <<"/">>
    ELSE str(f.new_msg_id) \o <<"/">>

\* 3. Calculate Final Path & Branch ID
new_path(f) ==
    IF Truthy(f.parent_message_id)
    THEN f.parent_path \o str(f.new_msg_id) \o <<"/">>
    ELSE str(f.new_msg_id) \o <<"/">>

\* a reply that does not take over the branch of its parent
final_branch_id_not_inherited(f) == IF f.is_fork_start THEN f.new_msg_id ELSE None

final_branch_id(f) == IF f.is_fork_start THEN f.new_msg_id ELSE f.initial_branch_val

\* 4. UPDATE messages SET path = new_path, branch_id = final_branch_id WHERE id = new_msg_id
update_message(f) ==
    [f EXCEPT !.pc = "commit", !.path = new_path(f), !.branch_id = final_branch_id(f)]

\* the row of the running transaction
RowOf(f) ==
    [thread_id |-> f.thread_id, user_id |-> f.user_id, role |-> f.role, content |-> f.content,
     path |-> f.path, parent_message_id |-> f.parent_message_id, branch_id |-> f.branch_id]

\* what the call was asked to do, kept per stored message
ArgsOf(f) == [is_fork_start |-> f.is_fork_start, parent_found |-> f.parent_found]

\* a connection starts add_message(c.thread_id, 1, c.role, c.content, c.parent_message_id,
\* c.is_fork_start); whatever a reader held from before is dropped
AddMessage(p, c) ==
    /\ frame[p].pc = "idle"
    /\ started < MaxCalls
    /\ started' = started + 1
    /\ frame' = [frame EXCEPT ![p] =
                    CallFrame(c.thread_id, 1, c.role, c.content, c.parent_message_id,
                              c.is_fork_start)]
    /\ context' = [arg |-> None, result |-> <<>>]
    /\ UNCHANGED <<threads, messages, messages_id_seq, appended, request, asked, run, fetched, ingest_vars>>

SelectParent(p) ==
    /\ frame[p].pc = "select"
    /\ frame' = [frame EXCEPT ![p] = select_parent(messages, frame[p])]
    /\ UNCHANGED <<threads, messages, messages_id_seq, appended, context, started, request, asked, run, fetched, ingest_vars>>

\* the INSERT on a connection in autocommit mode: the row is visible at once
InsertMessage_autocommit(p) ==
    LET f == insert_message(threads, messages, messages_id_seq, frame[p])
    IN  /\ frame[p].pc = "insert"
        /\ frame' = [frame EXCEPT ![p] = f]
        /\ messages_id_seq' = messages_id_seq + 1
        /\ messages' = IF f.pc = "update" THEN WithRow(messages, f.new_msg_id, RowOf(f))
                       ELSE messages
        /\ appended' = IF f.pc = "update" THEN WithRow(appended, f.new_msg_id, ArgsOf(f))
                       ELSE appended
        /\ UNCHANGED <<threads, context, started, request, asked, run, fetched, ingest_vars>>

\* nextval() is not undone when the statement fails
InsertMessage(p) ==
    /\ frame[p].pc = "insert"
    /\ frame' = [frame EXCEPT ![p] = insert_message(threads, messages, messages_id_seq, frame[p])]
    /\ messages_id_seq' = messages_id_seq + 1
    /\ UNCHANGED <<threads, messages, appended, context, started, request, asked, run, fetched, ingest_vars>>

UpdateMessage(p) ==
    /\ frame[p].pc = "update"
    /\ frame' = [frame EXCEPT ![p] = update_message(frame[p])]
    /\ UNCHANGED <<threads, messages, messages_id_seq, appended, context, started, request, asked, run, fetched, ingest_vars>>

\* conn.commit(): the row becomes visible to every connection
Commit(p) ==
    /\ frame[p].pc = "commit"
    /\ messages' = WithRow(messages, frame[p].new_msg_id, RowOf(frame[p]))
    /\ appended' = WithRow(appended, frame[p].new_msg_id, ArgsOf(frame[p]))
    /\ frame' = [frame EXCEPT ![p].pc = "returned"]
    /\ UNCHANGED <<threads, messages_id_seq, context, started, request, asked, run, fetched, ingest_vars>>

\* return new_msg_id, or the exception leaves the call; finally: putconn (rolls back)
Return(p) ==
    /\ frame[p].pc \in {"returned", "raised"}
    /\ frame' = [frame EXCEPT ![p] = IdleFrame]
    /\ UNCHANGED <<threads, messages, messages_id_seq, appended, context, started, request, asked, run, fetched, ingest_vars>>

-----------------------------------------------------------------------------
(* DBManager.get_context_messages *)

ContextCap == 6

\* the first n elements of a list: s[:n]
LastN_from_the_front(s, n) == IF Len(s) > n THEN SubSeq(s, 1, n) ELSE s

\* the last n elements of a list: s[-n:]
LastN(s, n) == IF Len(s) > n THEN SubSeq(s, Len(s) - n + 1, Len(s)) ELSE s

get_context_messages(rows, parent_message_id) ==
    IF ~Truthy(parent_message_id) THEN <<>>
    ELSE IF parent_message_id \notin DOMAIN rows THEN <<>>
    ELSE LET ids == ancestor_ids(rows[parent_message_id].path)
         IN  IF ids = <<>> THEN <<>>
             ELSE LET found == OrderById({ids[i] : i \in 1..Len(ids)} \cap DOMAIN rows)
                      all_messages == [i \in 1..Len(found) |-> RoleContent(rows[found[i]])]
                  IN  LastN(all_messages, ContextCap)

GetContextMessages(m) ==
    /\ context' = [arg |-> m, result |-> get_context_messages(messages, m)]
    /\ UNCHANGED <<threads, messages, messages_id_seq, appended, frame, started, request, asked, run, fetched, ingest_vars>>

-----------------------------------------------------------------------------
(* DBManager.get_last_message_id, OmarHandlers, ChatController *)

\* SELECT id FROM messages WHERE thread_id = t AND branch_id = b (IS NULL when b is None)
\* ORDER BY id DESC LIMIT 1
get_last_message_id(rows, thread_id, branch) ==
    LET ids == {m \in DOMAIN rows :
                   rows[m].thread_id = thread_id /\ rows[m].branch_id = branch}
    IN  IF ids = {} THEN None ELSE CHOOSE m \in ids : \A k \in ids : k <= m

\* OmarHandlers.resolve_parent_message: returns one value, an Optional[int]
resolve_parent_message(rows, thread_id, requested_parent_id, branch) ==
    IF Truthy(requested_parent_id) THEN requested_parent_id
    ELSE get_last_message_id(rows, thread_id, branch)

IdleRequest ==
    [pc |-> "idle", query_text |-> "hi", thread_id |-> None, parent_message_id |-> None,
     current_thread_id |-> None, resolved |-> None, error |-> "none"]

\* the id SERIAL gives the next row of table threads
NextThreadId == 1 + CHOOSE t \in threads : \A u \in threads : u <= t

\* process_user_query, step 1 (first half): ensure_thread creates and commits a thread
\* when the caller named none
ProcessUserQuery(p, c) ==
    /\ request[p].pc = "idle"
    /\ frame[p].pc = "idle"
    /\ asked < MaxRequests
    /\ asked' = asked + 1
    /\ threads' = IF Truthy(c.thread_id) THEN threads ELSE threads \cup {NextThreadId}
    /\ request' = [request EXCEPT ![p] =
                      [IdleRequest EXCEPT !.pc = "resolve", !.query_text = c.query_text,
                                          !.thread_id = c.thread_id,
                                          !.parent_message_id = c.parent_message_id,
                                          !.current_thread_id =
                                              IF Truthy(c.thread_id) THEN c.thread_id
                                              ELSE NextThreadId]]
    /\ UNCHANGED <<messages, messages_id_seq, appended, frame, context, started, run, fetched, ingest_vars>>

\* process_user_query, step 1 (second half):
\*     actual_parent_id, is_fork = self.state_handler.resolve_parent_message(...)
\* resolve_parent_message returns an int or None, never a pair, so the assignment to
\* two names raises TypeError on every call; no later statement of process_user_query
\* (log_user_message, get_chat_history, rag.query, log_ai_response) is ever reached
ResolveParent(p) ==
    /\ request[p].pc = "resolve"
    /\ request' = [request EXCEPT ![p].pc = "raised",
                                  ![p].resolved =
                                      resolve_parent_message(messages,
                                          request[p].current_thread_id,
                                          request[p].parent_message_id, None),
                                  ![p].error = "TypeError"]
    /\ UNCHANGED <<store_vars, asked, run, fetched, ingest_vars>>

\* the exception leaves process_user_query; the router answers with status 500
RequestEnds(p) ==
    /\ request[p].pc = "raised"
    /\ request' = [request EXCEPT ![p] = IdleRequest]
    /\ UNCHANGED <<store_vars, asked, run, fetched, ingest_vars>>

\* POST /threads/{thread_id}/messages: the parent is the last message of the main
\* thread, then add_message(thread_id, user.id, "user", content, parent)
AddMessageToThread(p, thread_id, content) ==
    /\ frame[p].pc = "idle"
    /\ request[p].pc = "idle"
    /\ started < MaxCalls
    /\ started' = started + 1
    /\ frame' = [frame EXCEPT ![p] =
                    CallFrame(thread_id, 1, "user", content,
                              get_last_message_id(messages, thread_id, None), FALSE)]
    /\ context' = [arg |-> None, result |-> <<>>]
    /\ UNCHANGED <<threads, messages, messages_id_seq, appended, request, asked, run, fetched, ingest_vars>>

-----------------------------------------------------------------------------
(* Initial states of the store: an empty table, or a conversation that     *)
(* earlier add_message calls stored.                                       *)

\* the tables after one add_message call that ran alone from its first statement to its end
add_message(db, thr, thread_id, user_id, role, content, parent_message_id, is_fork_start) ==
    LET f1 == select_parent(db.messages,
                  CallFrame(thread_id, user_id, role, content, parent_message_id, is_fork_start))
        f2 == insert_message(thr, db.messages, db.seq, f1)
        f3 == update_message(f2)
    IN  IF f2.pc = "raised" THEN [db EXCEPT !.seq = db.seq + 1]
        ELSE [messages |-> WithRow(db.messages, f3.new_msg_id, RowOf(f3)),
              appended |-> WithRow(db.appended, f3.new_msg_id, ArgsOf(f3)),
              seq |-> db.seq + 1]

EmptyStore == [messages |-> NoRows, appended |-> NoRows, seq |-> 1]

\* n turns, each one answering the turn before it, user and assistant alternating
RECURSIVE Conversation(_)
Conversation(n) ==
    IF n = 0 THEN [EmptyStore EXCEPT !.seq = FirstChainId]
    ELSE LET db == Conversation(n - 1)
         IN  add_message(db, ThreadIds, 1, IF n % 2 = 1 THEN 1 ELSE 0,
                         IF n % 2 = 1 THEN "user" ELSE "assistant",
                         IF n % 4 < 2 THEN "hi" ELSE "why",
                         IF n = 1 THEN None ELSE db.seq - 1, FALSE)

InitialStores == {EmptyStore, Conversation(ChainLen)}

\* the newest stored ids
Newest(n) == {m \in DOMAIN messages : Cardinality({k \in DOMAIN messages : k > m}) < n}

\* the turns callers append
Turns == {[role |-> "user", content |-> "hi"], [role |-> "assistant", content |-> "why"]}

\* ids a single caller names as parent: the newest stored ones, no message, 0, and the
\* id the sequence hands out next
ParentChoices == {None, 0, messages_id_seq} \cup Newest(3)

\* the calls of a single caller
SeqCalls ==
    {[thread_id |-> 1, role |-> u.role, content |-> u.content,
      parent_message_id |-> par, is_fork_start |-> fork] :
        u \in Turns, par \in ParentChoices, fork \in BOOLEAN}

\* the calls of concurrent callers: replies and forks under the newest messages,
\* under an id another connection has not committed yet, or under no message
ConcCalls ==
    {[thread_id |-> 1, role |-> "user", content |-> "hi",
      parent_message_id |-> par, is_fork_start |-> fork] :
        par \in {None} \cup Newest(2) \cup {frame[q].new_msg_id : q \in Procs},
        fork \in BOOLEAN}

-----------------------------------------------------------------------------
(* Readers of table messages between add_message calls:                    *)
(* OmarHandlers.resolve_parent_message, DBManager.get_thread_forks,        *)
(* DBManager.get_branch_messages_only.                                     *)

IdleFetch == [call |-> "none", args |-> <<>>, result |-> None]

\* the calls made between the reads: replies and forks in either thread, under no
\* message or under one of the newest messages
ReadCalls ==
    {[thread_id |-> t, role |-> "user", content |-> "hi",
      parent_message_id |-> par, is_fork_start |-> fork] :
        t \in ThreadIds, par \in {None} \cup Newest(2), fork \in BOOLEAN}

\* one add_message call that runs alone from its first statement to its end
AddMessageAlone(c) ==
    LET db == add_message([messages |-> messages, appended |-> appended,
                           seq |-> messages_id_seq],
                          threads, c.thread_id, 1, c.role, c.content,
                          c.parent_message_id, c.is_fork_start)
    IN  /\ started < MaxAppends
        /\ started' = started + 1
        /\ messages' = db.messages
        /\ appended' = db.appended
        /\ messages_id_seq' = db.seq
        /\ fetched' = IdleFetch
        /\ UNCHANGED <<threads, frame, context, chat_vars, run, ingest_vars>>

\* the branches a caller names: none, the stored fork starts, the newest message
BranchChoices == {None} \cup {m \in DOMAIN messages : messages[m].branch_id = m} \cup Newest(1)

ResolveParentMessage(thread_id, requested_parent_id, branch) ==
    /\ fetched' = [call |-> "resolve_parent_message",
                   args |-> <<thread_id, requested_parent_id, branch>>,
                   result |-> resolve_parent_message(messages, thread_id,
                                                     requested_parent_id, branch)]
    /\ UNCHANGED <<threads, messages, messages_id_seq, appended, frame, context, started,
                   chat_vars, run, ingest_vars>>

\* the fork starts of every thread
fork_rows_of_any_thread(rows, thread_id) ==
    {m \in DOMAIN rows : rows[m].branch_id = m}

\* SELECT id, parent_message_id, content, created_at FROM messages
\* WHERE thread_id = t AND branch_id = id, as the set of ids
fork_rows(rows, thread_id) ==
    {m \in DOMAIN rows : rows[m].thread_id = thread_id /\ rows[m].branch_id = m}

\* the orders in which a SELECT without ORDER BY may return the rows ids
RowOrders(ids) ==
    {s \in [1..Cardinality(ids) -> ids] : \A i, j \in 1..Cardinality(ids) : i # j => s[i] # s[j]}

\* row['content'][:150]; the contents stored here are shorter than 150 characters
preview(content) == content

\* forks_map[parent_id]: the entries appended for the rows of that parent, in row order
\* (the clock column created_at is left out of the entries)
RECURSIVE fork_entries(_, _, _)
fork_entries(rows, order, parent_id) ==
    IF order = <<>> THEN <<>>
    ELSE (IF rows[Head(order)].parent_message_id = parent_id
          THEN <<[branch_id |-> Head(order), preview |-> preview(rows[Head(order)].content)]>>
          ELSE <<>>)
         \o fork_entries(rows, Tail(order), parent_id)

\* the dict get_thread_forks returns when the SELECT hands over the rows in this order
forks_map(rows, order) ==
    [parent_id \in {rows[order[i]].parent_message_id : i \in 1..Len(order)} |->
        fork_entries(rows, order, parent_id)]

GetThreadForks(thread_id) ==
    /\ \E order \in RowOrders(fork_rows(messages, thread_id)) :
          fetched' = [call |-> "get_thread_forks", args |-> <<thread_id>>,
                      result |-> forks_map(messages, order)]
    /\ UNCHANGED <<threads, messages, messages_id_seq, appended, frame, context, started,
                   chat_vars, run, ingest_vars>>

\* the rows of the branch and of the branches forked inside it
get_branch_messages_with_sub_branches(rows, branch_start_message_id) ==
    LET ids == OrderById({m \in DOMAIN rows :
                   \E i \in 1..Len(ancestor_ids(rows[m].path)) :
                       ancestor_ids(rows[m].path)[i] = branch_start_message_id})
    IN  [i \in 1..Len(ids) |->
            [id |-> ids[i], thread_id |-> rows[ids[i]].thread_id,
             user_id |-> rows[ids[i]].user_id, role |-> rows[ids[i]].role,
             content |-> rows[ids[i]].content, branch_id |-> rows[ids[i]].branch_id]]

\* SELECT id, thread_id, user_id, role, content, created_at, branch_id FROM messages
\* WHERE branch_id = b ORDER BY created_at ASC; calls that run one after the other
\* stamp their rows in the order of their ids (created_at itself is left out)
get_branch_messages_only(rows, branch_start_message_id) ==
    LET ids == OrderById({m \in DOMAIN rows : rows[m].branch_id = branch_start_message_id})
    IN  [i \in 1..Len(ids) |->
            [id |-> ids[i], thread_id |-> rows[ids[i]].thread_id,
             user_id |-> rows[ids[i]].user_id, role |-> rows[ids[i]].role,
             content |-> rows[ids[i]].content, branch_id |-> rows[ids[i]].branch_id]]

GetBranchMessagesOnly(branch_start_message_id) ==
    /\ fetched' = [call |-> "get_branch_messages_only",
                   args |-> <<branch_start_message_id>>,
                   result |-> get_branch_messages_only(messages, branch_start_message_id)]
    /\ UNCHANGED <<threads, messages, messages_id_seq, appended, frame, context, started,
                   chat_vars, run, ingest_vars>>

\* the ids of the rows get_context_messages(parent_message_id) returns, in its order
get_context_ids(rows, parent_message_id) ==
    IF ~Truthy(parent_message_id) THEN <<>>
    ELSE IF parent_message_id \notin DOMAIN rows THEN <<>>
    ELSE LET ids == ancestor_ids(rows[parent_message_id].path)
         IN  IF ids = <<>> THEN <<>>
             ELSE LastN(OrderById({ids[i] : i \in 1..Len(ids)} \cap DOMAIN rows), ContextCap)

\* get_branch_full_view: ancestors + [start_msg] + branch_descendants, each row written
\* as the id of the message it shows; the branch rows are those of
\*     SELECT * FROM messages WHERE thread_id = %s AND branch_id = %s ORDER BY created_at
\* with the thread and the branch_id of the start message (no row when that is NULL)
get_branch_full_view(rows, branch_start_message_id) ==
    IF branch_start_message_id \notin DOMAIN rows THEN <<>>
    ELSE LET start_msg == rows[branch_start_message_id]
             ancestors == get_context_ids(rows, start_msg.parent_message_id)
             branch_descendants ==
                 IF start_msg.branch_id = None THEN <<>>
                 ELSE OrderById({m \in DOMAIN rows :
                                    /\ rows[m].thread_id = start_msg.thread_id
                                    /\ rows[m].branch_id = start_msg.branch_id})
         IN  ancestors \o <<branch_start_message_id>> \o branch_descendants

GetBranchFullView(branch_start_message_id) ==
    /\ fetched' = [call |-> "get_branch_full_view",
                   args |-> <<branch_start_message_id>>,
                   result |-> get_branch_full_view(messages, branch_start_message_id)]
    /\ UNCHANGED <<threads, messages, messages_id_seq, appended, frame, context, started,
                   chat_vars, run, ingest_vars>>

InitStore ==
    /\ threads = ThreadIds
    /\ \E db \in InitialStores :
          /\ messages = db.messages
          /\ appended = db.appended
          /\ messages_id_seq = db.seq
    /\ frame = [p \in Procs |-> IdleFrame]
    /\ context = [arg |-> None, result |-> <<>>]
    /\ started = 0
    /\ fetched = IdleFetch

InitChat ==
    /\ request = [p \in Procs |-> IdleRequest]
    /\ asked = 0

\* the calls of process_user_query: a new or an existing thread, no parent or the newest
\* message as parent
RequestCalls ==
    {[query_text |-> x, thread_id |-> t, parent_message_id |-> par] :
        x \in {"why"}, t \in {None} \cup ThreadIds, par \in {None} \cup Newest(1)}

-----------------------------------------------------------------------------
(* AdvancedRAGSystem.query: contextualize, dense and keyword retrieval,    *)
(* fusion, rerank, generation.  The LLM, the vector store, the keyword RPC *)
(* and the cross encoder are external services: a call to one of them      *)
(* either raises or returns, and what it returns is one of the values its  *)
(* interface allows.                                                       *)

TOP_K_RETRIEVAL == 15
TOP_K_RERANK == 5

\* None in a slot that otherwise holds a str
NoText == "None"

Min(a, b) == IF a <= b THEN a ELSE b

\* docs[:n]
FirstN(docs, n) == SubSeq(docs, 1, Min(n, Len(docs)))

\* metadata.get(key, default)
get(metadata, key, default) == IF key \in DOMAIN metadata THEN metadata[key] ELSE default

\* rows of table document_chunks, by id: rows 1 and 7 hold the same enriched content
\* and come from different documents; row 8 belongs to another space
document_chunks ==
    <<[content |-> "a", metadata |-> [source_document |-> "A.pdf", space_id |-> 1]],
      [content |-> "b", metadata |-> [source_document |-> "A.pdf", space_id |-> 1]],
      [content |-> "c", metadata |-> [source_document |-> "A.pdf", space_id |-> 1]],
      [content |-> "d", metadata |-> [source_document |-> "A.pdf", space_id |-> 1]],
      [content |-> "e", metadata |-> [source_document |-> "A.pdf", space_id |-> 1]],
      [content |-> "f", metadata |-> [source_document |-> "A.pdf", space_id |-> 1]],
      [content |-> "a", metadata |-> [source_document |-> "B.pdf", space_id |-> 1]],
      [content |-> "g", metadata |-> [source_document |-> "C.pdf", space_id |-> 2]]>>

\* Document(page_content=item['content'], metadata=item['metadata'])
Document(item) == [page_content |-> item.content, metadata |-> item.metadata]

\* the rows with these ids
Rows(ids) == [k \in 1..Len(ids) |-> document_chunks[ids[k]]]

\* the Documents of a list of rows
Documents(items) == [k \in 1..Len(items) |-> Document(items[k])]

\* the order in which each sub-index ranks the rows for the query
DenseOrder == <<1, 2, 7, 3, 8>>
KeywordOrder == <<7, 4, 5, 6, 8>>

\* the rows of a ranking that pass the space filter (no filter: every row)
Matching(order, filter) ==
    SelectSeq(order, LAMBDA i : filter = None \/ document_chunks[i].metadata.space_id = filter)

\* what a sub-index may return for a search with k = TOP_K_RETRIEVAL: some of the matching
\* rows, in ranking order
HitLists(order, filter) ==
    LET ranked == Matching(order, filter)
    IN  {[k \in 1..Cardinality(S) |-> ranked[OrderById(S)[k]]] :
            S \in {T \in SUBSET (1..Len(ranked)) :
                      Cardinality(T) <= Min(MaxHits, TOP_K_RETRIEVAL)}}

\* {doc.page_content: doc for doc in docs}, as the list of its values: a dict keeps its
\* keys in the order of their first insertion and, under each key, the value inserted last
RECURSIVE combined_docs_map(_)
combined_docs_map(docs) ==
    IF docs = <<>> THEN <<>>
    ELSE LET before == combined_docs_map(SubSeq(docs, 1, Len(docs) - 1))
             doc == docs[Len(docs)]
         IN  IF \E i \in 1..Len(before) : before[i].page_content = doc.page_content
             THEN [i \in 1..Len(before) |->
                      IF before[i].page_content = doc.page_content THEN doc ELSE before[i]]
             ELSE Append(before, doc)

\* the two lists joined, nothing removed
combined_docs_concatenated(vector_docs, keyword_docs) == vector_docs \o keyword_docs

\* STEP 3: combined_docs = list(combined_docs_map.values())
combined_docs(vector_docs, keyword_docs) == combined_docs_map(vector_docs \o keyword_docs)

Reversed(s) == [i \in 1..Len(s) |-> s[Len(s) + 1 - i]]

\* self.compressor.compress_documents(documents, query) when it returns: the documents
\* it keeps, best score first, cut to top_n
compress_documents(documents, reversed, kept, top_n) ==
    FirstN(IF reversed THEN Reversed(documents) ELSE documents, Min(kept, top_n))

\* the rerank fallback without the cut
fallback_docs_uncut(docs) == docs

\* reranked_docs = combined_docs[:TOP_K_RERANK]
fallback_docs(docs) == FirstN(docs, TOP_K_RERANK)

NoResult == [answer |-> NoText, source_document |-> NoText]

\* no query call is running
IdleRun ==
    [pc |-> "idle", user_query |-> "q", space_id |-> None, history_messages |-> <<>>,
     search_query |-> "q", filter_dict |-> None, filter_space_id |-> None,
     vector_docs |-> <<>>, keyword_response |-> [is_none |-> TRUE, data |-> <<>>],
     keyword_docs |-> <<>>, combined_docs |-> <<>>, reranked_docs |-> <<>>,
     result |-> NoResult, error |-> "none",
     calls |-> <<>>,      \* history: the external calls made, in order
     raised |-> {},       \* history: the external calls that raised
     hits |-> [dense |-> <<>>, keyword |-> <<>>]]
                          \* history: ids of the rows each sub-index returned

\* query(user_query, space_id, history_messages), STEP 0 up to the rewrite call:
\* history_messages = <<>> stands for None and for []
Query(user_query, space_id, history_messages) ==
    /\ run.pc = "idle"
    /\ run' = [IdleRun EXCEPT !.pc = IF history_messages # <<>> THEN "contextualize"
                                     ELSE "vector",
                              !.user_query = user_query,
                              !.space_id = space_id,
                              !.history_messages = history_messages,
                              !.search_query = user_query]
    /\ UNCHANGED <<store_vars, chat_vars, ingest_vars>>

\* search_query = self.contextualize_query(user_query, history_messages): the rewrite
\* call chain.invoke sits in no try block, neither in contextualize_query nor in query
ContextualizeQuery ==
    /\ run.pc = "contextualize"
    /\ \E returns \in BOOLEAN :
          run' = IF returns
                 THEN [run EXCEPT !.pc = "vector",
                                  !.search_query = "standalone q",
                                  !.calls = Append(@, "rewrite")]
                 ELSE [run EXCEPT !.pc = "raised",
                                  !.error = "UpstreamUnavailable",
                                  !.calls = Append(@, "rewrite"),
                                  !.raised = @ \cup {"rewrite"}]
    /\ UNCHANGED <<store_vars, chat_vars, ingest_vars>>

\* STEP 1: self.vectorstore.similarity_search(search_query, k, filter) in try/except
VectorRetrieval ==
    /\ run.pc = "vector"
    /\ LET filter_dict == IF Truthy(run.space_id) THEN run.space_id ELSE None
       IN  \/ \E ids \in HitLists(DenseOrder, filter_dict) :
                 run' = [run EXCEPT !.pc = "keyword",
                                    !.filter_dict = filter_dict,
                                    !.vector_docs = Documents(Rows(ids)),
                                    !.hits.dense = ids,
                                    !.calls = Append(@, "similarity_search")]
           \/ run' = [run EXCEPT !.pc = "keyword",
                                 !.filter_dict = filter_dict,
                                 !.vector_docs = <<>>,
                                 !.calls = Append(@, "similarity_search"),
                                 !.raised = @ \cup {"similarity_search"}]
    /\ UNCHANGED <<store_vars, chat_vars, ingest_vars>>

\* keyword retrieval in which the failure of the RPC leaves query
KeywordRetrieval_unguarded ==
    /\ run.pc = "keyword"
    /\ \/ \E ids \in HitLists(KeywordOrder, run.space_id) :
             run' = [run EXCEPT !.pc = "ensemble",
                                !.filter_space_id = run.space_id,
                                !.keyword_response = [is_none |-> FALSE, data |-> Rows(ids)],
                                !.keyword_docs = Documents(Rows(ids)),
                                !.hits.keyword = ids,
                                !.calls = Append(@, "kw_match_document_chunks")]
       \/ run' = [run EXCEPT !.pc = "raised",
                             !.error = "UpstreamUnavailable",
                             !.filter_space_id = run.space_id,
                             !.calls = Append(@, "kw_match_document_chunks"),
                             !.raised = @ \cup {"kw_match_document_chunks"}]
    /\ UNCHANGED <<store_vars, chat_vars, ingest_vars>>

\* STEP 2: self.supabase.rpc("kw_match_document_chunks", rpc_params).execute() in
\* try/except, then the conversion of keyword_response.data to Documents
KeywordRetrieval ==
    /\ run.pc = "keyword"
    /\ \/ \E ids \in HitLists(KeywordOrder, run.space_id) :
             LET keyword_response == [is_none |-> FALSE, data |-> Rows(ids)]
             IN  run' = [run EXCEPT !.pc = "ensemble",
                                    !.filter_space_id = run.space_id,
                                    !.keyword_response = keyword_response,
                                    !.keyword_docs =
                                        IF ~keyword_response.is_none
                                           /\ keyword_response.data # <<>>
                                        THEN Documents(keyword_response.data)
                                        ELSE <<>>,
                                    !.hits.keyword = ids,
                                    !.calls = Append(@, "kw_match_document_chunks")]
       \/ run' = [run EXCEPT !.pc = "ensemble",
                             !.filter_space_id = run.space_id,
                             !.keyword_response = [is_none |-> TRUE, data |-> <<>>],
                             !.keyword_docs = <<>>,
                             !.calls = Append(@, "kw_match_document_chunks"),
                             !.raised = @ \cup {"kw_match_document_chunks"}]
    /\ UNCHANGED <<store_vars, chat_vars, ingest_vars>>

\* fusion that hands an empty list on to the reranker
Ensemble_unchecked ==
    /\ run.pc = "ensemble"
    /\ run' = [run EXCEPT !.pc = "rerank",
                          !.combined_docs = combined_docs(run.vector_docs, run.keyword_docs)]
    /\ UNCHANGED <<store_vars, chat_vars, ingest_vars>>

\* STEP 3: merge and deduplicate, then `if not combined_docs: return {...}`
Ensemble ==
    /\ run.pc = "ensemble"
    /\ LET combined == combined_docs(run.vector_docs, run.keyword_docs)
       IN  run' = IF combined = <<>>
                  THEN [run EXCEPT !.pc = "returned",
                                   !.combined_docs = combined,
                                   !.result =
                                       [answer |-> "I couldn't find relevant information in this space.",
                                        source_document |-> NoText]]
                  ELSE [run EXCEPT !.pc = "rerank", !.combined_docs = combined]
    /\ UNCHANGED <<store_vars, chat_vars, ingest_vars>>

\* the result of leaving STEP 4 with reranked_docs: `if not reranked_docs: return {...}`
AfterReranking(r, reranked_docs) ==
    IF reranked_docs = <<>>
    THEN [r EXCEPT !.pc = "returned",
                   !.reranked_docs = reranked_docs,
                   !.result =
                       [answer |-> "Found documents, but they weren't relevant enough.",
                        source_document |-> NoText]]
    ELSE [r EXCEPT !.pc = "generate", !.reranked_docs = reranked_docs]

\* STEP 4: self.compressor.compress_documents(combined_docs, search_query) in try/except.
\* CrossEncoderReranker returns its top_n best-scored documents; the compressor
\* interface also lets a compressor drop documents, down to none
Reranking ==
    /\ run.pc = "rerank"
    /\ \/ \E reversed \in BOOLEAN, kept \in {0, Len(run.combined_docs)} :
             run' = AfterReranking(
                        [run EXCEPT !.calls = Append(@, "compress_documents")],
                        compress_documents(run.combined_docs, reversed, kept, TOP_K_RERANK))
       \/ run' = AfterReranking(
                     [run EXCEPT !.calls = Append(@, "compress_documents"),
                                 !.raised = @ \cup {"compress_documents"}],
                     fallback_docs(run.combined_docs))
    /\ UNCHANGED <<store_vars, chat_vars, ingest_vars>>

\* generation in which the failure of the call leaves query
Generate_unguarded ==
    /\ run.pc = "generate"
    /\ LET top_doc == run.reranked_docs[1]
           top_source_filename == get(top_doc.metadata, "source_document", "Unknown Document")
       IN  \/ run' = [run EXCEPT !.pc = "returned",
                                 !.calls = Append(@, "generation"),
                                 !.result =
                                     [answer |-> "response_text",
                                      source_document |-> top_source_filename,
                                      top_chunk_page_content |-> <<top_doc.page_content, "...">>]]
           \/ run' = [run EXCEPT !.pc = "raised",
                                 !.error = "UpstreamUnavailable",
                                 !.calls = Append(@, "generation"),
                                 !.raised = @ \cup {"generation"}]
    /\ UNCHANGED <<store_vars, chat_vars, ingest_vars>>

\* STEP 5: top document, context, prompt, and the generation call chain.invoke in
\* try/except; query returns the answer or the error result
Generate ==
    /\ run.pc = "generate"
    /\ LET top_doc == run.reranked_docs[1]
           top_source_filename == get(top_doc.metadata, "source_document", "Unknown Document")
       IN  \/ run' = [run EXCEPT !.pc = "returned",
                                 !.calls = Append(@, "generation"),
                                 !.result =
                                     [answer |-> "response_text",
                                      source_document |-> top_source_filename,
                                      top_chunk_page_content |-> <<top_doc.page_content, "...">>]]
           \/ run' = [run EXCEPT !.pc = "returned",
                                 !.calls = Append(@, "generation"),
                                 !.raised = @ \cup {"generation"},
                                 !.result =
                                     [answer |-> "An error occurred while generating the response.",
                                      source_document |-> top_source_filename,
                                      error |-> "UpstreamUnavailable"]]
    /\ UNCHANGED <<store_vars, chat_vars, ingest_vars>>

\* the caller has the result dict
QueryReturns ==
    /\ run.pc = "returned"
    /\ run' = IdleRun
    /\ UNCHANGED <<store_vars, chat_vars, ingest_vars>>

\* the exception has left query and reached the caller
QueryRaises ==
    /\ run.pc = "raised"
    /\ run' = IdleRun
    /\ UNCHANGED <<store_vars, chat_vars, ingest_vars>>

\* one earlier turn of the thread, as get_chat_history hands it to query
HistoryChoices == {<<>>, <<[role |-> "user", content |-> "hi"]>>}

\* the space a query names: none, space 1, or the integer 0 (the routers pass on
\* whatever integer the request carries)
SpaceChoices == {None, 0, 1}

InitQuery == run = IdleRun

-----------------------------------------------------------------------------
(* Contextual enrichment of the raw chunks of one document: the loop of    *)
(* DocumentProcessorService._process_with_global_context and the loop of   *)
(* AdvancedRAGSystem.load_and_process_pdf.  The summarization call         *)
(* chain.invoke is external: it returns a text or raises.  A Python string *)
(* that the code puts together is the sequence of its pieces.              *)

Enrichers == {"_process_with_global_context", "load_and_process_pdf"}

\* a dict without keys
NoMetadata == [k \in {} |-> 0]

\* metadata.update(new)
Update(metadata, new) ==
    [k \in (DOMAIN metadata) \cup (DOMAIN new) |-> IF k \in DOMAIN new THEN new[k] ELSE metadata[k]]

\* what process_pdf / load_and_process_pdf were called for
Ingested == [filename |-> "A.pdf", space_id |-> 1, file_url |-> "https://bucket/A.pdf", db_id |-> 7]

\* text_splitter.create_documents([full_text]): n chunks with empty metadata;
\* load_and_process_pdf injects the metadata of the document before its loop
RawDocs(enricher, n) ==
    [j \in 1..n |->
        [page_content |-> <<"raw chunk ">> \o str(j),
         metadata |-> IF enricher = "load_and_process_pdf"
                      THEN [source_document |-> Ingested.filename,
                            space_id |-> Ingested.space_id,
                            file_url |-> Ingested.file_url, db_id |-> Ingested.db_id]
                      ELSE NoMetadata]]

\* f"Context: {context}\n\nContent: {doc.page_content}"
combined_content(chunk_context, doc) ==
    <<"Context: ", chunk_context, "\n\nContent: ">> \o doc.page_content

\* _create_contextual_doc, and lines 293-297 of load_and_process_pdf
create_contextual_doc(enricher, doc, chunk_context) ==
    [page_content |-> combined_content(chunk_context, doc),
     metadata |->
        IF enricher = "load_and_process_pdf"
        THEN Update(doc.metadata, [original_content |-> doc.page_content])
        ELSE Update(doc.metadata,
                    [source_document |-> Ingested.filename, space_id |-> Ingested.space_id,
                     file_url |-> Ingested.file_url, db_id |-> Ingested.db_id,
                     original_content |-> doc.page_content])]

\* the ways the summarization call fails: what the failure is, and str(e) word by word
Failures ==
    {[kind |-> "rate_limit", error_msg |-> <<"Error", "code:", "429">>],
     [kind |-> "rate_limit", error_msg |-> <<"Rate", "limit", "reached">>],
     [kind |-> "other", error_msg |-> <<"content", "filter">>]}

\* word.lower()
lower(word) == CASE word = "Rate" -> "rate" [] word = "Error" -> "error" [] OTHER -> word

\* "429" in error_msg or "rate limit" in error_msg.lower()
is_rate_limit(error_msg) ==
    \/ \E k \in 1..Len(error_msg) : error_msg[k] = "429"
    \/ \E k \in 1..(Len(error_msg) - 1) :
          lower(error_msg[k]) = "rate" /\ lower(error_msg[k + 1]) = "limit"

\* a handler that takes every failure for a rate limit
handle_error_retries_everything(enricher, error_msg, retries, docs_list, original_doc) ==
    [success |-> FALSE, retries |-> retries - 1, docs_list |-> docs_list, slept |-> TRUE]

\* _handle_error(e, index, retries, docs_list, original_doc) and the except block of
\* load_and_process_pdf: the new success, retries and docs_list, and whether it slept
handle_error(enricher, error_msg, retries, docs_list, original_doc) ==
    IF is_rate_limit(error_msg)
    THEN [success |-> FALSE, retries |-> retries - 1, docs_list |-> docs_list, slept |-> TRUE]
    ELSE [success |-> TRUE,
          retries |-> IF enricher = "load_and_process_pdf" THEN retries ELSE 0,
          docs_list |-> Append(docs_list, original_doc), slept |-> FALSE]

\* a retry loop that goes on after a success
retry_loop_ignores_success(retries, success) == retries > 0

\* while retries > 0 and not success
retry_loop(retries, success) == retries > 0 /\ ~success

\* no enrichment is running
IdleEnrich ==
    [pc |-> "idle", enricher |-> "load_and_process_pdf", raw_docs |-> <<>>, i |-> 0,
     retries |-> 0, success |-> FALSE, contextualized_docs |-> <<>>,
     outcomes |-> <<>>,   \* history: per chunk, the outcomes of its summarization calls
     backoffs |-> <<>>,   \* history: per chunk, the number of rate-limit sleeps
     pacing |-> 0,        \* history: the number of mandatory sleeps between chunks
     full_text_len |-> 0] \* history: len(full_text) when process_pdf began the run

\* the loop is entered with the raw chunks of the document
Enrich(enricher, n) ==
    /\ enrich.pc = "idle"
    /\ enrich' = [IdleEnrich EXCEPT !.pc = "chunk", !.enricher = enricher,
                                    !.raw_docs = RawDocs(enricher, n), !.i = 1,
                                    !.outcomes = [j \in 1..n |-> <<>>],
                                    !.backoffs = [j \in 1..n |-> 0]]
    /\ UNCHANGED <<store_vars, chat_vars, run, index_lock, build, vectorstore>>

CONTEXT_THRESHOLD_CHARS == 30000

\* len(full_text) of the documents handed to process_pdf: short ones and the lengths
\* around the threshold
TextLengths == {1, CONTEXT_THRESHOLD_CHARS - 1, CONTEXT_THRESHOLD_CHARS,
                CONTEXT_THRESHOLD_CHARS + 1, 2 * CONTEXT_THRESHOLD_CHARS}

\* if len(full_text) <= CONTEXT_THRESHOLD_CHARS
within_threshold(full_text_len) == full_text_len <= CONTEXT_THRESHOLD_CHARS

\* process_pdf after the split into n raw chunks: the global-context loop is entered, or
\* every chunk is wrapped with the empty context and the list is returned at once
ProcessPdf(full_text_len, n) ==
    /\ enrich.pc = "idle"
    /\ enrich' =
          IF within_threshold(full_text_len)
          THEN [IdleEnrich EXCEPT !.pc = "chunk",
                                  !.enricher = "_process_with_global_context",
                                  !.raw_docs = RawDocs("_process_with_global_context", n),
                                  !.i = 1,
                                  !.outcomes = [j \in 1..n |-> <<>>],
                                  !.backoffs = [j \in 1..n |-> 0],
                                  !.full_text_len = full_text_len]
          ELSE [IdleEnrich EXCEPT !.pc = "returned",
                                  !.enricher = "process_pdf",
                                  !.raw_docs = RawDocs("process_pdf", n),
                                  !.contextualized_docs =
                                      [j \in 1..n |->
                                          create_contextual_doc("process_pdf",
                                              RawDocs("process_pdf", n)[j], "")],
                                  !.outcomes = [j \in 1..n |-> <<>>],
                                  !.backoffs = [j \in 1..n |-> 0],
                                  !.full_text_len = full_text_len]
    /\ UNCHANGED <<store_vars, chat_vars, run, index_lock, build, vectorstore>>

\* a loop that grants each chunk four attempts
NextChunk_four_attempts ==
    /\ enrich.pc = "chunk"
    /\ enrich' = IF enrich.i <= Len(enrich.raw_docs)
                 THEN [enrich EXCEPT !.pc = "retry", !.retries = 4, !.success = FALSE,
                                     !.pacing = @ + 1]
                 ELSE [enrich EXCEPT !.pc = "returned"]
    /\ UNCHANGED <<store_vars, chat_vars, run, index_lock, build, vectorstore>>

\* for i, doc in enumerate(raw_docs): time.sleep(..); retries = 3; success = False
\* -- or the loop is over and contextualized_docs is returned
NextChunk ==
    /\ enrich.pc = "chunk"
    /\ enrich' = IF enrich.i <= Len(enrich.raw_docs)
                 THEN [enrich EXCEPT !.pc = "retry", !.retries = 3, !.success = FALSE,
                                     !.pacing = @ + 1]
                 ELSE [enrich EXCEPT !.pc = "returned"]
    /\ UNCHANGED <<store_vars, chat_vars, run, index_lock, build, vectorstore>>

\* one pass of the while loop: the summarization call, then the try body or the handler
Summarize ==
    /\ enrich.pc = "retry"
    /\ retry_loop(enrich.retries, enrich.success)
    /\ LET i == enrich.i
           doc == enrich.raw_docs[i]
       IN  \/ enrich' = [enrich EXCEPT
                            !.contextualized_docs =
                                Append(@, create_contextual_doc(enrich.enricher, doc,
                                                                "chunk_context")),
                            !.success = TRUE,
                            !.outcomes[i] = Append(@, "ok")]
           \/ \E e \in Failures :
                 LET h == handle_error(enrich.enricher, e.error_msg, enrich.retries,
                                       enrich.contextualized_docs, doc)
                 IN  enrich' = [enrich EXCEPT
                                   !.contextualized_docs = h.docs_list,
                                   !.success = h.success,
                                   !.retries = h.retries,
                                   !.outcomes[i] = Append(@, e.kind),
                                   !.backoffs[i] = IF h.slept THEN @ + 1 ELSE @]
    /\ UNCHANGED <<store_vars, chat_vars, run, index_lock, build, vectorstore>>

\* the while loop is left; load_and_process_pdf then has
\*     if not success: contextualized_docs.append(doc)
\* and _process_with_global_context has nothing of the kind
EndOfRetries ==
    /\ enrich.pc = "retry"
    /\ ~retry_loop(enrich.retries, enrich.success)
    /\ enrich' = [enrich EXCEPT
                     !.pc = "chunk",
                     !.i = @ + 1,
                     !.contextualized_docs =
                         IF enrich.enricher = "load_and_process_pdf" /\ ~enrich.success
                         THEN Append(@, enrich.raw_docs[enrich.i])
                         ELSE @]
    /\ UNCHANGED <<store_vars, chat_vars, run, index_lock, build, vectorstore>>

\* return contextualized_docs
EnrichReturns ==
    /\ enrich.pc = "returned"
    /\ enrich' = IdleEnrich
    /\ UNCHANGED <<store_vars, chat_vars, run, index_lock, build, vectorstore>>

-----------------------------------------------------------------------------
(* POST /upload and AdvancedRAGSystem.build_index, on concurrent workers.  *)
(* build_index runs self.vectorstore.add_documents(documents) inside       *)
(* `with self.index_lock`; add_documents has the embedding model embed the *)
(* texts and then inserts the rows.                                        *)

IdleBuild == [pc |-> "idle", documents |-> 0, error |-> "none"]

\* build_index calls that have begun and not finished
Building == {p \in Procs : build[p].pc \in {"with", "add_documents", "embedding", "release"}}

\* upload_file, steps 1-3: the file is read and put into the bucket
UploadFile(p) ==
    /\ build[p].pc = "idle"
    /\ build' = [build EXCEPT ![p].pc = "process_rag"]
    /\ UNCHANGED <<store_vars, chat_vars, run, enrich, index_lock, vectorstore>>

\* upload_file, step 4: docs = rag_system.load_and_process_pdf(public_url, space_id).
\* load_and_process_pdf(self, file_url, db_id, space_id) has three parameters, so the
\* call raises TypeError; build_index(docs) on the next line is not reached
ProcessRag(p) ==
    /\ build[p].pc = "process_rag"
    /\ build' = [build EXCEPT ![p].pc = "upload_raised", ![p].error = "TypeError"]
    /\ UNCHANGED <<store_vars, chat_vars, run, enrich, index_lock, vectorstore>>

\* except Exception: raise HTTPException(status_code=500)
UploadEnds(p) ==
    /\ build[p].pc = "upload_raised"
    /\ build' = [build EXCEPT ![p] = IdleBuild]
    /\ UNCHANGED <<store_vars, chat_vars, run, enrich, index_lock, vectorstore>>

\* build_index(documents) is called with n documents
BuildIndex(p, n) ==
    /\ build[p].pc = "idle"
    /\ Len(vectorstore) + Cardinality(Building) < MaxBuilds
    /\ build' = [build EXCEPT ![p] = [IdleBuild EXCEPT !.pc = "with", !.documents = n]]
    /\ UNCHANGED <<store_vars, chat_vars, run, enrich, index_lock, vectorstore>>

\* the lock taken whether it is free or not
AcquireLock_unguarded(p) ==
    /\ build[p].pc = "with"
    /\ index_lock' = p
    /\ build' = [build EXCEPT ![p].pc = "add_documents"]
    /\ UNCHANGED <<store_vars, chat_vars, run, enrich, vectorstore>>

\* with self.index_lock: the worker waits until the lock is free and takes it
AcquireLock(p) ==
    /\ build[p].pc = "with"
    /\ index_lock = None
    /\ index_lock' = p
    /\ build' = [build EXCEPT ![p].pc = "add_documents"]
    /\ UNCHANGED <<store_vars, chat_vars, run, enrich, vectorstore>>

\* self.vectorstore.add_documents(documents) begins: the embedding call is sent
EmbedDocuments(p) ==
    /\ build[p].pc = "add_documents"
    /\ build' = [build EXCEPT ![p].pc = "embedding"]
    /\ UNCHANGED <<store_vars, chat_vars, run, enrich, index_lock, vectorstore>>

\* the embedding call returns and the rows are inserted, or it raises
AddVectors(p) ==
    /\ build[p].pc = "embedding"
    /\ \/ /\ vectorstore' = Append(vectorstore, build[p].documents)
          /\ build' = [build EXCEPT ![p].pc = "release"]
       \/ /\ vectorstore' = vectorstore
          /\ build' = [build EXCEPT ![p].pc = "release", ![p].error = "UpstreamUnavailable"]
    /\ UNCHANGED <<store_vars, chat_vars, run, enrich, index_lock>>

\* the with block is left, by its end or by the exception: the lock is released
ReleaseLock(p) ==
    /\ build[p].pc = "release"
    /\ index_lock' = None
    /\ build' = [build EXCEPT ![p] = IdleBuild]
    /\ UNCHANGED <<store_vars, chat_vars, run, enrich, vectorstore>>

InitIngest ==
    /\ enrich = IdleEnrich
    /\ index_lock = None
    /\ build = [p \in Procs |-> IdleBuild]
    /\ vectorstore = <<>>

-----------------------------------------------------------------------------
(* Specifications *)

vars == <<store_vars, chat_vars, run, ingest_vars>>

Init == InitStore /\ InitChat /\ InitQuery /\ InitIngest

\* one caller, one call after the other
NextSeq ==
    \/ \E c \in SeqCalls : AddMessage(1, c)
    \/ SelectParent(1)
    \/ InsertMessage(1)
    \/ UpdateMessage(1)
    \/ Commit(1)
    \/ Return(1)
    \/ \E m \in DOMAIN messages \cup {None, 0, messages_id_seq} : GetContextMessages(m)

SpecSeq == Init /\ [][NextSeq]_vars

\* concurrent callers, their statements interleaved
Next ==
    \/ \E p \in Procs, c \in ConcCalls : AddMessage(p, c)
    \/ \E p \in Procs : SelectParent(p)
    \/ \E p \in Procs : InsertMessage(p)
    \/ \E p \in Procs : UpdateMessage(p)
    \/ \E p \in Procs : Commit(p)
    \/ \E p \in Procs : Return(p)
    \/ \E m \in DOMAIN messages \cup {None, 0, messages_id_seq} : GetContextMessages(m)

Spec == Init /\ [][Next]_vars

\* the HTTP handlers that reach the store, on concurrent workers
NextChat ==
    \/ \E p \in Procs, c \in RequestCalls : ProcessUserQuery(p, c)
    \/ \E p \in Procs : ResolveParent(p)
    \/ \E p \in Procs : RequestEnds(p)
    \/ \E p \in Procs, t \in ThreadIds, x \in {"hi"} : AddMessageToThread(p, t, x)
    \/ \E p \in Procs : SelectParent(p)
    \/ \E p \in Procs : InsertMessage(p)
    \/ \E p \in Procs : UpdateMessage(p)
    \/ \E p \in Procs : Commit(p)
    \/ \E p \in Procs : Return(p)

SpecChat == Init /\ [][NextChat]_vars

\* query calls, one after the other
NextQuery ==
    \/ \E s \in SpaceChoices, h \in HistoryChoices : Query("q", s, h)
    \/ ContextualizeQuery
    \/ VectorRetrieval
    \/ KeywordRetrieval
    \/ Ensemble
    \/ Reranking
    \/ Generate
    \/ QueryReturns
    \/ QueryRaises

SpecQuery == Init /\ [][NextQuery]_vars

\* enrichments, one after the other
NextEnrich ==
    \/ \E e \in Enrichers, n \in 0..MaxChunks : Enrich(e, n)
    \/ \E l \in TextLengths, n \in 0..MaxChunks : ProcessPdf(l, n)
    \/ NextChunk
    \/ Summarize
    \/ EndOfRetries
    \/ EnrichReturns

SpecEnrich == Init /\ [][NextEnrich]_vars

\* the thread that runs the loop goes on: every sleep ends and every summarization call
\* returns or raises
SpecEnrichFair == SpecEnrich /\ WF_vars(NextChunk \/ Summarize \/ EndOfRetries)

\* the steps of a running query call
QueryStep ==
    \/ ContextualizeQuery
    \/ VectorRetrieval
    \/ KeywordRetrieval
    \/ Ensemble
    \/ Reranking
    \/ Generate
    \/ QueryReturns
    \/ QueryRaises

\* uploads and build_index calls on concurrent workers, and a query on space 2
NextIndex ==
    \/ \E p \in Procs : UploadFile(p)
    \/ \E p \in Procs : ProcessRag(p)
    \/ \E p \in Procs : UploadEnds(p)
    \/ \E p \in Procs : BuildIndex(p, MaxChunks)
    \/ \E p \in Procs : AcquireLock(p)
    \/ \E p \in Procs : EmbedDocuments(p)
    \/ \E p \in Procs : AddVectors(p)
    \/ \E p \in Procs : ReleaseLock(p)
    \/ \E h \in HistoryChoices : Query("q", 2, h)
    \/ QueryStep

SpecIndex == Init /\ [][NextIndex]_vars

\* one caller appends, and reads the table between its calls
NextRead ==
    \/ \E c \in ReadCalls : AddMessageAlone(c)
    \/ \E t \in ThreadIds, par \in {None, 0} \cup Newest(1), b \in BranchChoices :
          ResolveParentMessage(t, par, b)
    \/ \E t \in ThreadIds : GetThreadForks(t)
    \/ \E b \in {0} \cup Newest(4) : GetBranchMessagesOnly(b)
    \/ \E b \in {0} \cup Newest(4) : GetBranchFullView(b)

SpecRead == Init /\ [][NextRead]_vars

-----------------------------------------------------------------------------
(* Vocabulary of the properties *)

Stored == DOMAIN messages

path(m) == messages[m].path
branch_id(m) == messages[m].branch_id
parent(m) == messages[m].parent_message_id

\* m has a parent in the tree: another stored message that m names as its parent
\* (a message that names itself has none; see add_message with an id nobody stored yet)
HasParent(m) == parent(m) # None /\ parent(m) \in Stored /\ parent(m) # m

\* the id i is written in the path string s: its decimal digits fill a whole
\* piece between two separators (or between the start of s and a separator)
Written(i, s) ==
    \E a \in 1..Len(s) :
        LET b == a + Len(str(i)) - 1
        IN  /\ b < Len(s)
            /\ SubSeq(s, a, b) = str(i)
            /\ s[b + 1] = "/"
            /\ (a = 1 \/ s[a - 1] = "/")

IdsInPath(s) == {i \in 0..messages_id_seq : Written(i, s)}

\* the k-th smallest element of a set of ids
Kth(ids, k) == CHOOSE i \in ids : Cardinality({j \in ids : j <= i}) = k

\* the rows (role, content) of the stored messages with these ids, smallest id first
RowsAscending(ids) == [k \in 1..Cardinality(ids) |-> RoleContent(messages[Kth(ids, k)])]

\* m and its ancestors along parent_message_id
RECURSIVE Lineage(_)
Lineage(m) == IF HasParent(m) /\ parent(m) < m THEN {m} \cup Lineage(parent(m)) ELSE {m}

ForkStart(m) == appended[m].is_fork_start

\* the messages this behaviour appended (the others were stored before it began)
Fresh(m) == m \in Stored /\ started > 0 /\ m >= messages_id_seq - started

-----------------------------------------------------------------------------
(* C1 *)

\* C1: after any sequence of add_message calls, every stored message m with a parent p
\* has path(m) = path(p) + str(id(m)) + "/", and every message appended without a
\* parent has path(m) = str(id(m)) + "/".
C1_PathOfParentPlusId ==
    \A m \in Stored :
        /\ HasParent(m) => path(m) = path(parent(m)) \o str(m) \o <<"/">>
        /\ parent(m) = None => path(m) = str(m) \o <<"/">>

\* a reply two levels deep with a two-digit id was appended, and so was a root
C1_Witness ==
    /\ \E m \in Stored :
          /\ Fresh(m) /\ m >= 10
          /\ HasParent(m) /\ HasParent(parent(m))
    /\ \E r \in Stored : Fresh(r) /\ parent(r) = None

-----------------------------------------------------------------------------
(* C2 *)

\* C2: after any sequence of add_message calls, branch_id(m) = id(m) exactly for the
\* messages appended with is_fork_start = true; every other message with a parent has
\* its parent's branch_id; and branch_id is null when neither the message nor any of
\* its ancestors is a fork start.
C2_BranchIdRule ==
    \A m \in Stored :
        /\ (branch_id(m) = m) <=> ForkStart(m)
        /\ (~ForkStart(m) /\ HasParent(m)) => branch_id(m) = branch_id(parent(m))
        /\ (\A a \in Lineage(m) : ~ForkStart(a)) => branch_id(m) = None

\* scenario C of the spec: under one message, a reply that is not a fork (branch null)
\* and a fork (branch = its own id); and a reply inside a fork carries the fork's id
C2_Witness ==
    \/ \E b, c \in Stored :
          /\ Fresh(b) /\ Fresh(c)
          /\ HasParent(b) /\ HasParent(c) /\ parent(b) = parent(c)
          /\ ~ForkStart(b) /\ branch_id(b) = None
          /\ ForkStart(c) /\ branch_id(c) = c
    \/ \E c, d \in Stored :
          /\ Fresh(c) /\ Fresh(d)
          /\ ForkStart(c) /\ parent(d) = c /\ ~ForkStart(d) /\ branch_id(d) = c

-----------------------------------------------------------------------------
(* C3 *)

\* what the claim expects of ancestors(m): the stored messages whose ids are written in
\* path(m), smallest id first, each once
AncestorsExpected(m) ==
    /\ IdsInPath(path(m)) \subseteq Stored
    /\ get_context_messages(messages, m) = RowsAscending(IdsInPath(path(m)))

\* C3 as stated: for every stored message m, at any depth, get_context_messages(m)
\* returns exactly the messages whose ids appear in path(m), in ascending id order,
\* each exactly once.
C3_AsStated == \A m \in Stored : AncestorsExpected(m)

\* C3 amended: for every stored message m whose path(m) holds at most 6 ids,
\* get_context_messages(m) returns exactly the messages whose ids appear in path(m),
\* in ascending id order, each exactly once.
C3_AncestorsUpToCap ==
    \A m \in Stored : Cardinality(IdsInPath(path(m))) <= ContextCap => AncestorsExpected(m)

\* get_context_messages was called on a freshly appended message with a two-digit id
\* at depth 6 and returned 6 rows
C3_Witness ==
    /\ Fresh(context.arg)
    /\ context.arg >= 10
    /\ Cardinality(IdsInPath(path(context.arg))) = ContextCap
    /\ Len(context.result) = ContextCap

-----------------------------------------------------------------------------
(* C4 *)

\* C4: under every interleaving of concurrent add_message calls that name the same
\* parent, the children get distinct ids, each committed child of a parent that its
\* call could read satisfies the path and branch rules, and no committed (visible)
\* message has an empty path or a branch_id that is not final.
C4_ConcurrentAppends ==
    /\ \A p, q \in Procs :
          (p # q /\ frame[p].new_msg_id # None) => frame[p].new_msg_id # frame[q].new_msg_id
    /\ \A p \in Procs :
          frame[p].pc \in {"update", "commit"} => frame[p].new_msg_id \notin Stored
    /\ \A m \in Stored :
          /\ path(m) # <<>>
          /\ ForkStart(m) => branch_id(m) = m
          /\ appended[m].parent_found =>
                /\ path(m) = path(parent(m)) \o str(m) \o <<"/">>
                /\ ~ForkStart(m) => branch_id(m) = branch_id(parent(m))

\* two calls under the same stored parent overlapped: the one that inserted second
\* has committed while the other still holds its finished row uncommitted
C4_Witness ==
    \E p, q \in Procs :
        /\ p # q
        /\ frame[p].pc = "returned" /\ frame[q].pc = "commit"
        /\ frame[p].parent_found /\ frame[q].parent_found
        /\ frame[p].parent_message_id = frame[q].parent_message_id
        /\ frame[p].new_msg_id > frame[q].new_msg_id
        /\ frame[p].new_msg_id \in Stored

-----------------------------------------------------------------------------
(* C5 *)

\* the user turn of the process_user_query call of worker p is stored in its thread
UserTurnStored(p) ==
    \E m \in Stored :
        /\ messages[m].thread_id = request[p].current_thread_id
        /\ messages[m].role = "user"
        /\ messages[m].content = request[p].query_text
        /\ path(m) # <<>>

\* C5: process_user_query commits the user message to the thread before the RAG query
\* starts, and the message stays stored when the call then fails or is abandoned: a
\* call on a stored thread, under no parent or a stored parent, that has ended in an
\* exception has left its user message in the thread.
C5_UserTurnSurvivesFailure ==
    \A p \in Procs :
        (/\ request[p].pc = "raised"
         /\ request[p].current_thread_id \in threads
         /\ request[p].parent_message_id \in {None} \cup Stored)
        => UserTurnStored(p)

-----------------------------------------------------------------------------
(* Vocabulary of the properties of query *)

ExternalCalls ==
    {"rewrite", "similarity_search", "kw_match_document_chunks", "compress_documents",
     "generation"}

\* the running query call has made this external call
Called(call) == \E i \in 1..Len(run.calls) : run.calls[i] = call

\* ... and the call raised
Raised(call) == call \in run.raised

\* fusion is done
Fused == run.pc \in {"rerank", "generate", "returned"}

\* the candidates fusion received: the dense list, then the sparse list
Candidates == run.vector_docs \o run.keyword_docs

\* a result dict that says nothing was found
NothingFound(result) ==
    /\ DOMAIN result = {"answer", "source_document"}
    /\ result.answer \in {"I couldn't find relevant information in this space.",
                          "Found documents, but they weren't relevant enough."}
    /\ result.source_document = NoText

-----------------------------------------------------------------------------
(* C6 *)

\* C6: a failure of any single external call made inside query (query rewrite, dense
\* search, keyword search, rerank, generation) is contained in its stage: for every
\* combination of such failures, with or without history, query returns a result dict
\* instead of raising.
C6_FailuresContained ==
    \A call \in ExternalCalls : Raised(call) => run.pc # "raised"

-----------------------------------------------------------------------------
(* C7 *)

\* C7: for any dense and sparse candidate lists, the fused list handed to the reranker
\* contains exactly one chunk for every distinct page_content occurring in either list
\* (and nothing else), so two candidates with identical content coming from different
\* sources yield exactly one fused chunk.
C7_OneChunkPerContent ==
    Fused =>
        /\ \A k \in 1..Len(Candidates) :
              Cardinality({i \in 1..Len(run.combined_docs) :
                              run.combined_docs[i].page_content = Candidates[k].page_content}) = 1
        /\ \A i \in 1..Len(run.combined_docs) :
              \E k \in 1..Len(Candidates) : run.combined_docs[i] = Candidates[k]

\* the dense list and the sparse list each brought a chunk with the same content from a
\* different document, together with other chunks, and the fused list is at the reranker
C7_Witness ==
    /\ run.pc = "rerank"
    /\ \E i \in 1..Len(run.vector_docs), k \in 1..Len(run.keyword_docs) :
          /\ run.vector_docs[i].page_content = run.keyword_docs[k].page_content
          /\ run.vector_docs[i].metadata.source_document
                # run.keyword_docs[k].metadata.source_document
    /\ Len(run.combined_docs) >= 3
    /\ Len(run.combined_docs) < Len(Candidates)

-----------------------------------------------------------------------------
(* C8 *)

\* C8: whenever no chunk survives fusion (both sub-indexes return nothing or fail) or no
\* chunk survives reranking, query returns a "nothing found" result with
\* source_document = None, and no generation call is made in that request.
C8_NothingFoundWithoutGeneration ==
    /\ (Fused /\ run.combined_docs = <<>>) =>
          /\ run.pc = "returned"
          /\ NothingFound(run.result)
          /\ ~Called("generation")
    /\ (Called("compress_documents") /\ run.reranked_docs = <<>>) =>
          /\ run.pc = "returned"
          /\ NothingFound(run.result)
          /\ ~Called("generation")

\* a query with history whose dense search failed and whose keyword search found nothing
\* has returned
C8_Witness ==
    /\ run.pc = "returned"
    /\ Called("rewrite")
    /\ run.raised = {"similarity_search"}
    /\ Called("kw_match_document_chunks")
    /\ run.combined_docs = <<>>

-----------------------------------------------------------------------------
(* C9 *)

\* C9: if the rerank call raises, query continues with the first N = 5 fused candidates
\* in fusion order (all of them when fewer than 5) and still produces an answer; in
\* both the reranked and the fallback path at most N chunks go to generation.
C9_RerankFallback ==
    /\ Raised("compress_documents") =>
          /\ Len(run.reranked_docs) = Min(TOP_K_RERANK, Len(run.combined_docs))
          /\ \A i \in 1..Len(run.reranked_docs) : run.reranked_docs[i] = run.combined_docs[i]
          /\ run.pc \in {"generate", "returned"}
          /\ run.pc = "returned" =>
                /\ Called("generation")
                /\ ~Raised("generation") => run.result.answer = "response_text"
    /\ (run.pc = "generate" \/ Called("generation")) =>
          Len(run.reranked_docs) \in 1..TOP_K_RERANK

\* six distinct chunks were fused, the rerank call raised, and the answer was generated
\* from the first five
C9_Witness ==
    /\ run.pc = "returned"
    /\ Raised("compress_documents")
    /\ Len(run.combined_docs) > TOP_K_RERANK
    /\ Len(run.reranked_docs) = TOP_K_RERANK
    /\ run.result.answer = "response_text"

-----------------------------------------------------------------------------
(* C10 *)

\* C10: if exactly one of the dense search and the keyword search fails, that sub-index
\* contributes an empty list and the other sub-index's hits still reach fusion
\* unchanged; the search is aborted by neither failure.
C10_OneSubIndexFails ==
    /\ (Raised("similarity_search") /\ Called("kw_match_document_chunks")
           /\ ~Raised("kw_match_document_chunks")) =>
          /\ run.pc \in {"ensemble", "rerank", "generate", "returned"}
          /\ run.vector_docs = <<>>
          /\ run.keyword_docs = Documents(Rows(run.hits.keyword))
          /\ Fused => run.combined_docs = combined_docs_map(run.keyword_docs)
    /\ (Raised("kw_match_document_chunks") /\ ~Raised("similarity_search")) =>
          /\ run.pc \in {"ensemble", "rerank", "generate", "returned"}
          /\ run.keyword_docs = <<>>
          /\ run.vector_docs = Documents(Rows(run.hits.dense))
          /\ Fused => run.combined_docs = combined_docs_map(run.vector_docs)

\* the keyword RPC failed, the dense search returned several hits, and they are fused
C10_Witness ==
    /\ run.pc = "rerank"
    /\ run.raised = {"kw_match_document_chunks"}
    /\ Len(run.hits.dense) >= 2
    /\ Len(run.combined_docs) >= 2

-----------------------------------------------------------------------------
(* C11 *)

\* C11: if the generation call raises after chunks were retrieved, query returns a
\* result whose answer is the fixed error text, whose source_document is the top-ranked
\* chunk's document and which carries an error field; the exception does not propagate
\* to the caller.
C11_GenerationFailureResult ==
    Raised("generation") =>
        /\ run.pc = "returned"
        /\ DOMAIN run.result = {"answer", "source_document", "error"}
        /\ run.result.answer = "An error occurred while generating the response."
        /\ run.result.source_document = run.reranked_docs[1].metadata.source_document
        /\ run.result.error # NoText

\* the reranker put another chunk on top than fusion did, from another document, and
\* the generation call then raised
C11_Witness ==
    /\ Raised("generation")
    /\ ~Raised("compress_documents")
    /\ run.reranked_docs[1].metadata.source_document
          # run.combined_docs[1].metadata.source_document
    /\ run.result.source_document = "B.pdf"

-----------------------------------------------------------------------------
(* C12 *)

\* C12: for every query call that supplies an integer space_id, both the dense search
\* and the keyword search are issued with a filter equal to that space_id, so no chunk
\* of another space reaches fusion; the dense search runs without a filter only when no
\* space_id is supplied.
C12_SearchesScopedToSpace ==
    /\ (run.space_id # None /\ Called("similarity_search")) =>
          /\ run.filter_dict = run.space_id
          /\ \A i \in 1..Len(run.vector_docs) :
                run.vector_docs[i].metadata.space_id = run.space_id
    /\ (run.space_id # None /\ Called("kw_match_document_chunks")) =>
          /\ run.filter_space_id = run.space_id
          /\ \A i \in 1..Len(run.keyword_docs) :
                run.keyword_docs[i].metadata.space_id = run.space_id
    /\ (Called("similarity_search") /\ run.filter_dict = None) => run.space_id = None

-----------------------------------------------------------------------------
(* Vocabulary of the properties of enrichment and indexing *)

\* the positions of the output list that hold chunk j, raw or enriched
OutputsOf(j) ==
    {a \in 1..Len(enrich.contextualized_docs) :
        \/ enrich.contextualized_docs[a] = enrich.raw_docs[j]
        \/ \E chunk_context \in {"chunk_context", ""} :
              enrich.contextualized_docs[a].page_content
                  = combined_content(chunk_context, enrich.raw_docs[j])}

\* the output at position a is an enriched chunk
Enriched(a) == "original_content" \in DOMAIN enrich.contextualized_docs[a].metadata

\* the first k summarization calls for chunk j signalled a rate limit and the next
\* one succeeded
RateLimitedThenOk(j, k) ==
    /\ Len(enrich.outcomes[j]) >= k + 1
    /\ \A a \in 1..k : enrich.outcomes[j][a] = "rate_limit"
    /\ enrich.outcomes[j][k + 1] = "ok"

\* the workers inside `with self.index_lock`
InIndexSection == {p \in Procs : build[p].pc \in {"add_documents", "embedding", "release"}}

-----------------------------------------------------------------------------
(* C13 *)

\* C13: for every list of raw chunks and every pattern of summarization-call outcomes
\* (success, rate-limit signal, other failure), the enricher returns exactly one output
\* chunk per input chunk, in input order, including for a chunk whose call is
\* rate-limited on all 3 attempts.
C13_OneOutputPerChunk ==
    enrich.pc = "returned" =>
        /\ Len(enrich.contextualized_docs) = Len(enrich.raw_docs)
        /\ \A j \in 1..Len(enrich.raw_docs) : OutputsOf(j) = {j}

-----------------------------------------------------------------------------
(* C14 *)

\* C14: for a chunk whose summarization call signals a rate limit k times (k = 0, 1 or
\* 2) and then succeeds, the enricher makes exactly k+1 calls and exactly k backoff
\* sleeps for that chunk and emits the enriched chunk, not the raw fallback.
C14_RateLimitedThenSuccess ==
    \A j \in 1..Len(enrich.raw_docs), k \in 0..2 :
        RateLimitedThenOk(j, k) =>
            /\ Len(enrich.outcomes[j]) = k + 1
            /\ enrich.backoffs[j] = k
            /\ Cardinality(OutputsOf(j)) = 1
            /\ \A a \in OutputsOf(j) : Enriched(a)

\* scenario D of the spec, in _process_with_global_context: the first chunk was
\* rate-limited twice and then enriched, the second at once, and the list is returned
C14_Witness ==
    /\ enrich.pc = "returned"
    /\ enrich.enricher = "_process_with_global_context"
    /\ Len(enrich.raw_docs) >= 2
    /\ enrich.outcomes[1] = <<"rate_limit", "rate_limit", "ok">>
    /\ enrich.backoffs[1] = 2
    /\ enrich.outcomes[2] = <<"ok">>
    /\ Len(enrich.contextualized_docs) >= 2

-----------------------------------------------------------------------------
(* C15 *)

\* C15: at most one build_index call is inside the index-write section at any time,
\* and query never acquires or waits on index_lock, so a query always proceeds while a
\* build_index call holds the lock: whatever the lock's state, the next step of a
\* running query is enabled.
C15_OneWriterQueriesUnblocked ==
    /\ Cardinality(InIndexSection) <= 1
    /\ \A p \in Procs : (p \in InIndexSection) <=> (index_lock = p)
    /\ run.pc # "idle" => ENABLED QueryStep

\* one worker holds the lock with its embedding call out, another waits for the lock,
\* and a query that found documents is past its searches
C15_Witness ==
    /\ \E p, q \in Procs : build[p].pc = "embedding" /\ build[q].pc = "with"
    /\ run.pc = "generate"
    /\ Len(vectorstore) >= 1

-----------------------------------------------------------------------------
(* C16 *)

\* C16: no external model call (embedding, summarization, rerank, generation) is in
\* flight while index_lock is held: during ingestion, enrichment and embedding of the
\* chunks complete before build_index enters its critical section.
C16_NoModelCallUnderLock ==
    \A p \in Procs : index_lock = p => build[p].pc # "embedding"

-----------------------------------------------------------------------------
(* Vocabulary of the properties of the readers *)

thread(m) == messages[m].thread_id

\* the fork start that opens the branch m lies in: m itself or its nearest ancestor
\* appended with is_fork_start = true, None when there is none
RECURSIVE NearestForkStart(_)
NearestForkStart(m) ==
    IF ForkStart(m) THEN m
    ELSE IF HasParent(m) /\ parent(m) < m THEN NearestForkStart(parent(m))
    ELSE None

\* the (key, position) pairs of a forks_map whose entry names message m
ListedAt(map, m) ==
    {<<k, i>> \in (DOMAIN map) \X (1..Cardinality(Stored)) :
        i <= Len(map[k]) /\ map[k][i].branch_id = m}

\* the ids of the rows in a list of rows
IdsOf(rows) == {rows[i].id : i \in 1..Len(rows)}

-----------------------------------------------------------------------------
(* C17 *)

\* C17: resolve_parent_message returns the requested parent id unchanged whenever one
\* is supplied; otherwise it returns the greatest message id in the thread among
\* messages whose branch_id equals the given branch (among messages with null branch_id
\* when no branch is given), and null when that thread or branch holds no message, so
\* a reply with no parent and no branch never attaches to a message inside a fork.
C17_ResolveParentMessage ==
    fetched.call = "resolve_parent_message" =>
        LET t == fetched.args[1]
            requested == fetched.args[2]
            b == fetched.args[3]
            ids == {m \in Stored : thread(m) = t /\ branch_id(m) = b}
        IN  /\ requested # None => fetched.result = requested
            /\ requested = None =>
                  IF ids = {} THEN fetched.result = None
                  ELSE fetched.result \in ids /\ \A k \in ids : k <= fetched.result
            /\ (requested = None /\ b = None /\ fetched.result # None) =>
                  NearestForkStart(fetched.result) = None

-----------------------------------------------------------------------------
(* C18 *)

\* C18: an add_message call whose parent_message_id names no existing message fails
\* with an error and stores no message; it never commits a message that records that
\* parent id while its path omits the parent's path: every stored message that records
\* a parent id was appended under a message that existed, and its path extends that
\* message's path.
C18_MissingParentRejected ==
    \A m \in Stored :
        parent(m) # None =>
            /\ parent(m) \in Stored /\ parent(m) # m
            /\ appended[m].parent_found
            /\ path(m) = path(parent(m)) \o str(m) \o <<"/">>

-----------------------------------------------------------------------------
(* C19 *)

\* C19: after any sequence of appends, get_thread_forks(t) lists every message of
\* thread t that was appended with is_fork_start = true exactly once, under the key
\* equal to its parent_message_id, and lists no message appended with
\* is_fork_start = false (nor any message of another thread).
C19_ForksListedOnce ==
    fetched.call = "get_thread_forks" =>
        LET t == fetched.args[1]
            map == fetched.result
        IN  /\ \A m \in Stored :
                  IF thread(m) = t /\ ForkStart(m)
                  THEN /\ Cardinality(ListedAt(map, m)) = 1
                       /\ \A at \in ListedAt(map, m) : at[1] = parent(m)
                  ELSE ListedAt(map, m) = {}
            /\ \A k \in DOMAIN map : \A i \in 1..Len(map[k]) : map[k][i].branch_id \in Stored

\* the forks of a thread were read where two forks start under the same message, which
\* also has a reply that is no fork, and the other thread holds a fork of its own
C19_Witness ==
    /\ fetched.call = "get_thread_forks"
    /\ \E k \in DOMAIN fetched.result :
          /\ Len(fetched.result[k]) = 2
          /\ \E r \in Stored : parent(r) = k /\ ~ForkStart(r) /\ thread(r) = fetched.args[1]
    /\ \E m \in Stored : ForkStart(m) /\ thread(m) # fetched.args[1]

-----------------------------------------------------------------------------
(* C20 *)

\* C20: after any sequence of appends, get_branch_messages_only(b) returns exactly the
\* messages whose branch_id = b (the fork start b and those of its descendants whose
\* nearest fork-start ancestor is b), each once, and no message of the main thread or
\* of any other branch or sub-branch.
C20_BranchMessagesOnly ==
    fetched.call = "get_branch_messages_only" =>
        LET b == fetched.args[1]
            rows == fetched.result
        IN  /\ IdsOf(rows) = {m \in Stored : branch_id(m) = b}
            /\ IdsOf(rows) = {m \in Stored : NearestForkStart(m) = b}
            /\ Len(rows) = Cardinality(IdsOf(rows))
            /\ (b \in Stored /\ ForkStart(b)) => b \in IdsOf(rows)

\* a branch was read that holds its fork start and a reply, while a sub-branch forked
\* inside it and the main thread hold messages of their own
C20_Witness ==
    /\ fetched.call = "get_branch_messages_only"
    /\ Len(fetched.result) >= 2
    /\ fetched.args[1] \in IdsOf(fetched.result)
    /\ \E c \in Stored :
          /\ ForkStart(c) /\ HasParent(c)
          /\ parent(c) \in IdsOf(fetched.result)
          /\ c \notin IdsOf(fetched.result)
    /\ \E m \in Stored : NearestForkStart(m) = None

-----------------------------------------------------------------------------
(* C21 *)

\* the position of the first candidate, dense list first, that has this content
FirstOccurrence(content) ==
    CHOOSE k \in 1..Len(Candidates) :
        /\ Candidates[k].page_content = content
        /\ \A j \in 1..(k - 1) : Candidates[j].page_content # content

\* C21: when the dense and the sparse list contain chunks with equal page_content, the
\* chunk kept in the fused list is the first occurrence in dense-then-sparse
\* concatenation order (the dense hit's metadata survives), and the fused list keeps
\* the order of first occurrences.
C21_FirstOccurrenceWins ==
    Fused =>
        /\ \A i \in 1..Len(run.combined_docs) :
              run.combined_docs[i] = Candidates[FirstOccurrence(run.combined_docs[i].page_content)]
        /\ \A i, j \in 1..Len(run.combined_docs) :
              i < j => FirstOccurrence(run.combined_docs[i].page_content)
                          < FirstOccurrence(run.combined_docs[j].page_content)

-----------------------------------------------------------------------------
(* C22 *)

\* the a-th summarization call for chunk j failed with something other than a rate limit
OtherFailureAt(j, a) == a <= Len(enrich.outcomes[j]) /\ enrich.outcomes[j][a] = "other"

\* the number of rate-limit signals among the outcomes of the calls for chunk j
RateLimits(j) ==
    Cardinality({a \in 1..Len(enrich.outcomes[j]) : enrich.outcomes[j][a] = "rate_limit"})

\* C22: when a summarization call for a chunk fails with anything other than a
\* rate-limit signal, the enricher emits the raw chunk for it, makes no further call
\* and no backoff sleep for that chunk, and goes on to the next chunk.
C22_OtherFailureFallsBack ==
    \A j \in 1..Len(enrich.raw_docs), a \in 1..3 :
        OtherFailureAt(j, a) =>
            /\ Len(enrich.outcomes[j]) = a
            /\ enrich.backoffs[j] = RateLimits(j)
            /\ Cardinality(OutputsOf(j)) = 1
            /\ \A at \in OutputsOf(j) : enrich.contextualized_docs[at].page_content
                                             = enrich.raw_docs[j].page_content
            /\ (enrich.pc = "retry" /\ enrich.i = j) =>
                  ~retry_loop(enrich.retries, enrich.success)
            /\ enrich.pc = "returned" =>
                  \A k \in 1..Len(enrich.raw_docs) : enrich.outcomes[k] # <<>>

\* the call for the first chunk failed at once with another error, the second chunk was
\* enriched, and the list is returned with both
C22_Witness ==
    /\ enrich.pc = "returned"
    /\ enrich.enricher = "_process_with_global_context"
    /\ Len(enrich.raw_docs) >= 2
    /\ enrich.outcomes[1] = <<"other">>
    /\ enrich.outcomes[2] = <<"ok">>
    /\ enrich.backoffs[1] = 0
    /\ Len(enrich.contextualized_docs) >= 2
    /\ ~Enriched(1) /\ Enriched(2)

-----------------------------------------------------------------------------
(* C23 *)

\* C23: for every chunk the enricher makes at most 3 summarization calls, and the
\* per-chunk retry loop terminates under every pattern of call outcomes, so enriching a
\* finite chunk list always finishes.
C23_BoundedRetriesTerminate ==
    /\ [](\A j \in 1..Len(enrich.outcomes) : Len(enrich.outcomes[j]) <= 3)
    /\ (enrich.pc \in {"chunk", "retry"}) ~> (enrich.pc = "returned")

\* a list was returned after three rate-limited calls for its first chunk and three
\* calls for its second
C23_Witness ==
    /\ enrich.pc = "returned"
    /\ Len(enrich.raw_docs) >= 2
    /\ enrich.outcomes[1] = <<"rate_limit", "rate_limit", "rate_limit">>
    /\ Len(enrich.outcomes[2]) = 3

-----------------------------------------------------------------------------
(* C24 *)

\* process_pdf began the run that enrich records
ByProcessPdf == enrich.full_text_len > 0

\* C24: for a document longer than the threshold T = 30000 characters, process_pdf
\* makes no summarization call and emits one chunk per raw chunk whose enriched content
\* equals the raw chunk content; a document of length at most T (including exactly T)
\* is handled by the global-context strategy.
C24_OversizedSkipsEnrichment ==
    ByProcessPdf =>
        /\ enrich.full_text_len > 30000 =>
              /\ \A j \in 1..Len(enrich.outcomes) : enrich.outcomes[j] = <<>>
              /\ enrich.pc = "returned"
              /\ Len(enrich.contextualized_docs) = Len(enrich.raw_docs)
              /\ \A j \in 1..Len(enrich.raw_docs) :
                    enrich.contextualized_docs[j].page_content
                        = enrich.raw_docs[j].page_content
        /\ enrich.full_text_len <= 30000 =>
              enrich.enricher = "_process_with_global_context"

-----------------------------------------------------------------------------
(* C30 *)

\* C30: every chunk returned by DocumentProcessorService.process_pdf (enriched,
\* oversized-document or raw-fallback after a failed summarization call) carries the
\* ingested document's space_id and source_document in its metadata, so every emitted
\* chunk is reachable by a search scoped to that space.
C30_EveryChunkCarriesSpace ==
    (ByProcessPdf /\ enrich.pc = "returned") =>
        \A a \in 1..Len(enrich.contextualized_docs) :
            LET metadata == enrich.contextualized_docs[a].metadata
            IN  /\ {"space_id", "source_document"} \subseteq DOMAIN metadata
                /\ metadata.space_id = Ingested.space_id
                /\ metadata.source_document = Ingested.filename

-----------------------------------------------------------------------------
(* C25 *)

\* the n greatest of a set of ids
Greatest(ids, n) == {i \in ids : Cardinality({j \in ids : j > i}) < n}

\* what the claim expects get_context_messages to return for a stored message m
CappedAncestors(m) ==
    IF Cardinality(IdsInPath(path(m))) > 6
    THEN RowsAscending(Greatest(IdsInPath(path(m)), 6))
    ELSE RowsAscending(IdsInPath(path(m)))

\* C25: get_context_messages returns at most 6 messages; when the path of the given
\* message holds more than 6 ids it returns the messages of the 6 greatest ids, in
\* ascending id order (the most recent suffix of the ancestor chain), and otherwise the
\* whole chain.
C25_ContextCapped ==
    /\ \A m \in Stored :
          /\ IdsInPath(path(m)) \subseteq Stored
          /\ Len(get_context_messages(messages, m)) <= 6
          /\ get_context_messages(messages, m) = CappedAncestors(m)
    /\ Len(context.result) <= 6
    /\ context.result # <<>> =>
          context.arg \in Stored /\ context.result = CappedAncestors(context.arg)

\* get_context_messages was called on a freshly appended message at depth 7 and
\* returned the 6 rows of its newest ancestors, the message itself last
C25_Witness ==
    /\ Fresh(context.arg)
    /\ Cardinality(IdsInPath(path(context.arg))) = 7
    /\ Len(context.result) = 6
    /\ context.result[6] = RoleContent(messages[context.arg])

-----------------------------------------------------------------------------
(* C28 *)

\* C28: after any sequence of append and branch requests, every stored message's parent
\* belongs to the same thread as the message, including when a branch request passes a
\* thread id together with a parent_message_id chosen by the caller.
C28_ParentInSameThread ==
    \A m \in Stored : HasParent(m) => thread(parent(m)) = thread(m)

-----------------------------------------------------------------------------
(* C29 *)

\* C29: for a fork-start message b, get_branch_full_view(b) returns the ancestor prefix
\* of b's parent, then b, then the later messages of b's branch, with every message
\* appearing exactly once in the result.
C29_BranchFullViewOnce ==
    (/\ fetched.call = "get_branch_full_view"
     /\ fetched.args[1] \in Stored
     /\ ForkStart(fetched.args[1])) =>
        LET b == fetched.args[1]
            prefix == IF HasParent(b) THEN OrderById(IdsInPath(path(parent(b)))) ELSE <<>>
            later == OrderById({m \in Stored : branch_id(m) = b /\ m # b})
        IN  /\ fetched.result = prefix \o <<b>> \o later
            /\ \A i, j \in 1..Len(fetched.result) :
                  i # j => fetched.result[i] # fetched.result[j]

-----------------------------------------------------------------------------
(* C26 *)

\* the two turns of the process_user_query call of worker p are stored in its thread:
\* the user message under the resolved parent, and the assistant message under it
BothTurnsAppended(p) ==
    \E u, a \in Stored :
        /\ u < a
        /\ thread(u) = request[p].current_thread_id /\ thread(a) = thread(u)
        /\ messages[u].role = "user" /\ messages[u].content = request[p].query_text
        /\ parent(u) = request[p].resolved
        /\ messages[a].role = "assistant" /\ parent(a) = u
        /\ path(a) = path(u) \o str(a) \o <<"/">>
        /\ branch_id(a) = branch_id(u)
        /\ ~ForkStart(a)

-----------------------------------------------------------------------------
(* C27 *)

\* the children of m that share its branch_id
ChildrenInBranch(m) ==
    {c \in Stored : HasParent(c) /\ parent(c) = m /\ branch_id(c) = branch_id(m)}

====
